---- MODULE Spec2Model ----
(***************************************************************************)
(* Model of TimetableGenerator (src/timetable_generator.py) and of the     *)
(* entities of src/models.py it reads.                                     *)
(*                                                                         *)
(* A Python str is a sequence of one-character strings, so that the key    *)
(* of a decision variable is built, searched, split and parsed character   *)
(* by character, as the f-string, str.startswith, `in`, str.split and      *)
(* int() do.  The characters used are letters, the digits and "_".         *)
(***************************************************************************)
EXTENDS Integers, Sequences, FiniteSets, TLC

VARIABLES pc, sessions, rooms, professors, time_slots, assignments, model,
          status, value, result

vars == <<pc, sessions, rooms, professors, time_slots, assignments, model,
          status, value, result>>

----------------------------------------------------------------------------
(* Python str and int primitives *)

Digits == <<"0", "1", "2", "3", "4", "5", "6", "7", "8", "9">>

IsDigit(c) == \E d \in 1..10 : Digits[d] = c

DigitValue(c) == (CHOOSE d \in 1..10 : Digits[d] = c) - 1

\* str(n) for an int n >= 0
RECURSIVE IntToStr(_)
IntToStr(n) ==
    IF n < 10 THEN <<Digits[n + 1]>>
    ELSE IntToStr(n \div 10) \o <<Digits[(n % 10) + 1]>>

\* f"{n:02d}" for an int n >= 0
Fmt02d(n) == IF n < 10 THEN <<"0">> \o IntToStr(n) ELSE IntToStr(n)

\* int(s) raises ValueError unless s is a non-empty run of digits
IntOk(s) == Len(s) > 0 /\ \A i \in 1..Len(s) : IsDigit(s[i])

RECURSIVE ParseInt(_)
ParseInt(s) ==
    IF Len(s) = 0 THEN 0
    ELSE 10 * ParseInt(SubSeq(s, 1, Len(s) - 1)) + DigitValue(s[Len(s)])

\* s.startswith(p)
StartsWith(s, p) == Len(p) <= Len(s) /\ \A i \in 1..Len(p) : s[i] = p[i]

\* p in s
Contains(s, p) ==
    \E i \in 0..(Len(s) - Len(p)) : \A j \in 1..Len(p) : s[i + j] = p[j]

\* s.split('_')
RECURSIVE Split(_)
Split(s) ==
    IF \A i \in 1..Len(s) : s[i] # "_" THEN <<s>>
    ELSE LET k == CHOOSE i \in 1..Len(s) :
                      s[i] = "_" /\ \A j \in 1..(i - 1) : s[j] # "_"
         IN  <<SubSeq(s, 1, k - 1)>> \o Split(SubSeq(s, k + 1, Len(s)))

\* '_'.join(parts)
RECURSIVE Join(_)
Join(parts) ==
    IF Len(parts) = 0 THEN <<>>
    ELSE IF Len(parts) = 1 THEN parts[1]
    ELSE parts[1] \o <<"_">> \o Join(Tail(parts))

\* s[:2] and s[2:]
Prefix2(s) == IF Len(s) <= 2 THEN s ELSE SubSeq(s, 1, 2)

Suffix2(s) == IF Len(s) <= 2 THEN <<>> ELSE SubSeq(s, 3, Len(s))

\* the elements of a sequence
Range(q) == {q[i] : i \in 1..Len(q)}

----------------------------------------------------------------------------
(* src/models.py *)

\* None where a datetime.time is expected (a TimeSlot built without end_time)
NoTime == [hour |-> -1, minute |-> -1]

WEEKLY == "weekly"

\* datetime.time(hour, minute)
time(hour, minute) == [hour |-> hour, minute |-> minute]

\* time(hour, minute) raises ValueError outside 0..23 and 0..59
TimeOk(hour, minute) == hour \in 0..23 /\ minute \in 0..59

TimeSlot(start_time, end_time, day) ==
    [start_time |-> start_time, end_time |-> end_time, day |-> day,
     week |-> WEEKLY]

\* TimeSlot.__eq__: all four fields
TimeSlotEq(a, b) ==
    /\ a.start_time = b.start_time
    /\ a.end_time = b.end_time
    /\ a.day = b.day
    /\ a.week = b.week

\* Professor.can_teach
can_teach(professor, subject, grade, speciality) ==
    \E sl \in professor.subject_levels :
        sl.subject = subject /\ sl.grade = grade /\ sl.speciality = speciality

----------------------------------------------------------------------------
(* TimetableGenerator: slot catalog and decision variables *)

\* days = range(5)
NumDays == 5

\* for hour in range(8, 17)
FirstHour == 8

LastHour == 16

\* if hour != 12
LunchHour == 12

\* time(hour, 30) and time((hour + 1) % 24, 45)
StartMinute == 30

EndMinute == 45

\* the slots of one day, hours FirstHour..h, in order
RECURSIVE DaySlots(_, _)
DaySlots(day, h) ==
    IF h < FirstHour THEN <<>>
    ELSE DaySlots(day, h - 1) \o
         (IF h # LunchHour
          THEN <<TimeSlot(time(h, StartMinute),
                          time((h + 1) % 24, EndMinute), day)>>
          ELSE <<>>)

\* the slots of days 0..d, in order
RECURSIVE WeekSlots(_)
WeekSlots(d) ==
    IF d < 0 THEN <<>> ELSE WeekSlots(d - 1) \o DaySlots(d, LastHour)

\* _create_time_slots(include_biweekly=False)
create_time_slots == WeekSlots(NumDays - 1)

\* f"{slot.start_time.hour:02d}{slot.start_time.minute:02d}"
SlotHHMM(slot) ==
    Fmt02d(slot.start_time.hour) \o Fmt02d(slot.start_time.minute)

\* f"{session.id}_{slot.day}_{HHMM}_{room.id}"
VarName(session, slot, room) ==
    session.id \o <<"_">> \o IntToStr(slot.day) \o <<"_">> \o SlotHHMM(slot)
        \o <<"_">> \o room.id

\* f"_{slot.day}_{HHMM}_"
SlotPattern(slot) ==
    <<"_">> \o IntToStr(slot.day) \o <<"_">> \o SlotHHMM(slot) \o <<"_">>

\* f"_{slot.day}_{HHMM}_{room.id}"
SlotRoomPattern(slot, room) == SlotPattern(slot) \o room.id

\* f"_{day}_"
DayPattern(day) == <<"_">> \o IntToStr(day) \o <<"_">>

\* the professor of the session lists a slot with the catalog slot's day,
\* start_time and end_time
prof_available(session, slot) ==
    \E avail_slot \in session.professor.available_slots :
        /\ slot.day = avail_slot.day
        /\ slot.start_time = avail_slot.start_time
        /\ slot.end_time = avail_slot.end_time

\* the (session, slot, room) triples a variable is created for
Candidates(ss, rs, slots) ==
    {c \in (1..Len(ss)) \X (1..Len(slots)) \X (1..Len(rs)) :
        /\ prof_available(ss[c[1]], slots[c[2]])
        /\ rs[c[3]].type = ss[c[1]].room_type}

\* the keys created by the room loop of one (session, slot), rooms r..
RECURSIVE RoomLoop(_, _, _, _)
RoomLoop(session, slot, rs, r) ==
    IF r > Len(rs) THEN <<>>
    ELSE (IF rs[r].type = session.room_type
          THEN <<VarName(session, slot, rs[r])>>
          ELSE <<>>)
         \o RoomLoop(session, slot, rs, r + 1)

\* the keys created by the slot loop of one session, slots t..
RECURSIVE SlotLoop(_, _, _, _)
SlotLoop(session, slots, rs, t) ==
    IF t > Len(slots) THEN <<>>
    ELSE (IF prof_available(session, slots[t])
          THEN RoomLoop(session, slots[t], rs, 1)
          ELSE <<>>)
         \o SlotLoop(session, slots, rs, t + 1)

\* the keys created by the session loop, sessions s..
RECURSIVE SessionLoop(_, _, _, _)
SessionLoop(ss, slots, rs, s) ==
    IF s > Len(ss) THEN <<>>
    ELSE SlotLoop(ss[s], slots, rs, 1) \o SessionLoop(ss, slots, rs, s + 1)

\* the entries of q at the indices I, in order
RECURSIVE PickFrom(_, _, _)
PickFrom(q, I, k) ==
    IF k > Len(q) THEN <<>>
    ELSE (IF k \in I THEN <<q[k]>> ELSE <<>>) \o PickFrom(q, I, k + 1)

Pick(q, I) == PickFrom(q, I, 1)

\* dict insertion: a key assigned again keeps its first position
FirstOccurrences(q) ==
    Pick(q, {i \in 1..Len(q) : \A j \in 1..(i - 1) : q[j] # q[i]})

\* the keys of the dict `assignments`, in insertion order
create_assignments(ss, rs, slots) ==
    FirstOccurrences(SessionLoop(ss, slots, rs, 1))

----------------------------------------------------------------------------
(* TimetableGenerator: the constraint passes.  A constraint model.Add(...)  *)
(* is a record: the variables summed, the relation and the right side.     *)

SumEq(names, n) == [vars |-> names, op |-> "==", rhs |-> n]

SumLe(names, n) == [vars |-> names, op |-> "<=", rhs |-> n]

\* var_name.split('_')[0]
FirstPart(var_name) == Split(var_name)[1]

\* next((s for s in sessions if s.id == session_id), None) is not None
HasSession(ss, session_id) == \E i \in 1..Len(ss) : ss[i].id = session_id

\* next((s for s in sessions if s.id == session_id), None)
FindSession(ss, session_id) ==
    ss[CHOOSE i \in 1..Len(ss) :
           ss[i].id = session_id /\ \A j \in 1..(i - 1) : ss[j].id # session_id]

\* "Each session must be scheduled exactly once"
SessionVars(keys, session) ==
    Pick(keys, {k \in 1..Len(keys) : StartsWith(keys[k], session.id)})

SessionOnce(keys, ss) ==
    {SumEq(SessionVars(keys, ss[i]), 1) :
        i \in {j \in 1..Len(ss) : Len(SessionVars(keys, ss[j])) > 0}}

\* "Sessions of the same subject should not be at the same time"
RECURSIVE Repeat(_, _)
Repeat(x, n) == IF n <= 0 THEN <<>> ELSE <<x>> \o Repeat(x, n - 1)

\* one entry per session whose id is the first part of var_name and
\* whose subject is `subject`
RECURSIVE SubjectSlotVars(_, _, _, _, _)
SubjectSlotVars(keys, ss, slot, subject, k) ==
    IF k > Len(keys) THEN <<>>
    ELSE Repeat(keys[k],
                IF Contains(keys[k], SlotPattern(slot))
                THEN Cardinality({i \in 1..Len(ss) :
                                     /\ ss[i].id = FirstPart(keys[k])
                                     /\ ss[i].subject = subject})
                ELSE 0)
         \o SubjectSlotVars(keys, ss, slot, subject, k + 1)

SubjectNonOverlap(keys, ss, slots) ==
    {SumLe(SubjectSlotVars(keys, ss, slots[t], subject, 1), 1) :
        <<t, subject>> \in
            {x \in (1..Len(slots)) \X {ss[i].subject : i \in 1..Len(ss)} :
                Len(SubjectSlotVars(keys, ss, slots[x[1]], x[2], 1)) > 0}}

\* _add_session_constraints
add_session_constraints(keys, ss, slots) ==
    SessionOnce(keys, ss) \cup SubjectNonOverlap(keys, ss, slots)

\* _add_room_constraints
SlotRoomVars(keys, slot, room) ==
    Pick(keys, {k \in 1..Len(keys) :
                   Contains(keys[k], SlotRoomPattern(slot, room))})

add_room_constraints(keys, rs, slots) ==
    {SumLe(SlotRoomVars(keys, slots[x[1]], rs[x[2]]), 1) :
        x \in {y \in (1..Len(slots)) \X (1..Len(rs)) :
                  Len(SlotRoomVars(keys, slots[y[1]], rs[y[2]])) > 0}}

\* _add_professor_constraints: the variables of `professor` at `slot`
ProfSlotNames(keys, ss, professor, slot) ==
    Pick(keys, {k \in 1..Len(keys) :
                   /\ Contains(keys[k], SlotPattern(slot))
                   /\ HasSession(ss, FirstPart(keys[k]))
                   /\ FindSession(ss, FirstPart(keys[k])).professor.id
                          = professor.id})

SessionProfCanTeach(session) ==
    can_teach(session.professor, session.subject, session.group.grade,
              session.group.speciality)

\* the professor of the list has an exactly matching available slot
is_available(professor, slot) ==
    \E avail_slot \in professor.available_slots :
        /\ slot.day = avail_slot.day
        /\ slot.start_time = avail_slot.start_time
        /\ slot.end_time = avail_slot.end_time

ProfessorSlotConstraints(keys, ss, professor, slot) ==
    LET names == ProfSlotNames(keys, ss, professor, slot)
        teach(n) == SessionProfCanTeach(FindSession(ss, FirstPart(n)))
    IN  {SumEq(<<names[i]>>, 0) :
            i \in {j \in 1..Len(names) :
                      \/ ~teach(names[j])
                      \/ ~is_available(professor, slot)}}

add_professor_constraints(keys, ss, profs, slots) ==
    UNION {ProfessorSlotConstraints(keys, ss, profs[x[1]], slots[x[2]]) :
              x \in (1..Len(profs)) \X (1..Len(slots))}

\* _add_room_capacity_constraints
RoomFits(session, room) ==
    /\ ~(session.group.size > room.capacity)
    /\ session.required_features \subseteq room.features

RoomCapacityConstraints(keys, ss, slot, room) ==
    LET names == SlotRoomVars(keys, slot, room)
    IN  {SumEq(<<names[i]>>, 0) :
            i \in {j \in 1..Len(names) :
                      \E k \in 1..Len(ss) :
                          /\ ss[k].id = FirstPart(names[j])
                          /\ ~RoomFits(ss[k], room)}}

add_room_capacity_constraints(keys, ss, rs, slots) ==
    UNION {RoomCapacityConstraints(keys, ss, slots[x[1]], rs[x[2]]) :
              x \in (1..Len(slots)) \X (1..Len(rs))}

\* _add_student_group_constraints: groups_in_slot[group_id]
GroupSlotVars(keys, ss, slot, group_id) ==
    Pick(keys, {k \in 1..Len(keys) :
                   /\ Contains(keys[k], SlotPattern(slot))
                   /\ HasSession(ss, FirstPart(keys[k]))
                   /\ FindSession(ss, FirstPart(keys[k])).group.id = group_id})

add_student_group_constraints(keys, ss, slots) ==
    {SumLe(GroupSlotVars(keys, ss, slots[x[1]], x[2]), 1) :
        x \in {y \in (1..Len(slots)) \X {ss[i].group.id : i \in 1..Len(ss)} :
                  Len(GroupSlotVars(keys, ss, slots[y[1]], y[2])) > 1}}

\* _add_professor_workload_constraints: day_slots
RECURSIVE DaySlotVars(_, _, _, _, _)
DaySlotVars(keys, ss, professor, day, k) ==
    IF k > Len(keys) THEN <<>>
    ELSE Repeat(keys[k],
                IF Contains(keys[k], DayPattern(day))
                THEN Cardinality({i \in 1..Len(ss) :
                                     /\ ss[i].id = FirstPart(keys[k])
                                     /\ ss[i].professor.id = professor.id})
                ELSE 0)
         \o DaySlotVars(keys, ss, professor, day, k + 1)

\* for day in range(5)
WorkDays == 5

\* int(professor.max_hours_per_day * 2 / 3), max_hours_per_day >= 0
max_sessions(professor) == (professor.max_hours_per_day * 2) \div 3

add_professor_workload_constraints(keys, ss, profs) ==
    {SumLe(DaySlotVars(keys, ss, profs[x[1]], x[2], 1),
           max_sessions(profs[x[1]])) :
        x \in {y \in (1..Len(profs)) \X (0..(WorkDays - 1)) :
                  Len(DaySlotVars(keys, ss, profs[y[1]], y[2], 1)) > 0}}

----------------------------------------------------------------------------
(* TimetableGenerator: objective, solver and solution extraction *)

\* parts[-3], parts[-2], parts[-1] and '_'.join(parts[:-3]) of a key
KeyParts(var_name) == Split(var_name)

KeyDay(var_name) == KeyParts(var_name)[Len(KeyParts(var_name)) - 2]

KeyTime(var_name) == KeyParts(var_name)[Len(KeyParts(var_name)) - 1]

KeyRoom(var_name) == KeyParts(var_name)[Len(KeyParts(var_name))]

KeySession(var_name) ==
    Join(SubSeq(KeyParts(var_name), 1, Len(KeyParts(var_name)) - 3))

\* int(time_str[:2]), int(time_str[2:]) and time(hour, minute) raise nothing
KeyTimeOk(var_name) ==
    /\ IntOk(Prefix2(KeyTime(var_name)))
    /\ IntOk(Suffix2(KeyTime(var_name)))
    /\ TimeOk(ParseInt(Prefix2(KeyTime(var_name))),
              ParseInt(Suffix2(KeyTime(var_name))))

KeySlotTime(var_name) ==
    time(ParseInt(Prefix2(KeyTime(var_name))),
         ParseInt(Suffix2(KeyTime(var_name))))

\* int(parts[-3]) raises nothing
KeyDayOk(var_name) == IntOk(KeyDay(var_name))

PriorityWeight == 10

PreferredBonus == 5

\* slot in session.professor.preferred_slots, slot = TimeSlot(slot_time, None, day)
InPreferred(session, slot_time, day) ==
    \E p \in session.professor.preferred_slots :
        TimeSlotEq(p, TimeSlot(slot_time, NoTime, day))

\* the objective terms appended for one key
ObjectiveTermsOf(ss, var_name) ==
    IF Len(KeyParts(var_name)) < 4 THEN <<>>
    ELSE IF ~(KeyDayOk(var_name) /\ KeyTimeOk(var_name)) THEN <<>>
    ELSE IF ~HasSession(ss, KeySession(var_name)) THEN <<>>
    ELSE LET session == FindSession(ss, KeySession(var_name))
         IN  <<[var |-> var_name, coef |-> session.priority * PriorityWeight]>>
             \o (IF InPreferred(session, KeySlotTime(var_name),
                                ParseInt(KeyDay(var_name)))
                 THEN <<[var |-> var_name, coef |-> PreferredBonus]>>
                 ELSE <<>>)

RECURSIVE ObjectiveLoop(_, _, _)
ObjectiveLoop(keys, ss, k) ==
    IF k > Len(keys) THEN <<>>
    ELSE ObjectiveTermsOf(ss, keys[k]) \o ObjectiveLoop(keys, ss, k + 1)

\* objective_terms
build_objective(keys, ss) == ObjectiveLoop(keys, ss, 1)

\* NewIntVar(0, 1000000, 'objective')
ObjectiveMax == 1000000

\* the number of entries of `names` valued 1
CountOnes(names, val) ==
    Cardinality({i \in 1..Len(names) : names[i] \in val})

Satisfies(val, c) ==
    IF c.op = "==" THEN CountOnes(c.vars, val) = c.rhs
    ELSE CountOnes(c.vars, val) <= c.rhs

\* sum(objective_terms) under a valuation
RECURSIVE ObjectiveValue(_, _)
ObjectiveValue(terms, val) ==
    IF Len(terms) = 0 THEN 0
    ELSE (IF Head(terms).var \in val THEN Head(terms).coef ELSE 0)
         + ObjectiveValue(Tail(terms), val)

\* the valuations (sets of keys valued 1) the posted model admits
FeasibleSet(keys, m) ==
    {val \in SUBSET Range(keys) :
        /\ \A c \in m.constraints : Satisfies(val, c)
        /\ ObjectiveValue(m.objective, val) \in 0..ObjectiveMax}

OptimalSet(keys, m) ==
    LET F == FeasibleSet(keys, m)
    IN  {val \in F :
            \A other \in F :
                ObjectiveValue(m.objective, other)
                    <= ObjectiveValue(m.objective, val)}

\* a dict as a function; d[k] = v
EmptyDict == [k \in {} |-> 0]

DictSet(d, k, v) ==
    [x \in (DOMAIN d) \cup {k} |-> IF x = k THEN v ELSE d[x]]

\* _extract_solution: the loop over assignments.items(); "raised" once
\* int(day) has failed
RECURSIVE ExtractLoop(_, _, _, _)
ExtractLoop(keys, val, k, solution) ==
    IF k > Len(keys) THEN [raised |-> FALSE, solution |-> solution]
    ELSE IF keys[k] \notin val
         THEN ExtractLoop(keys, val, k + 1, solution)
    ELSE IF Len(KeyParts(keys[k])) < 4
         THEN ExtractLoop(keys, val, k + 1, solution)
    ELSE IF ~KeyTimeOk(keys[k])
         THEN ExtractLoop(keys, val, k + 1, solution)
    ELSE IF ~KeyDayOk(keys[k])
         THEN [raised |-> TRUE, solution |-> solution]
    ELSE ExtractLoop(keys, val, k + 1,
                     DictSet(solution, KeySession(keys[k]),
                             [day |-> ParseInt(KeyDay(keys[k])),
                              start_time |-> KeySlotTime(keys[k]),
                              room |-> KeyRoom(keys[k])]))

\* _extract_solution: None after an exception, else the dict
extract_solution(keys, val) ==
    LET r == ExtractLoop(keys, val, 1, EmptyDict)
    IN  IF r.raised THEN [none |-> TRUE, entries |-> EmptyDict]
        ELSE [none |-> FALSE, entries |-> r.solution]

\* `if solution:` is false for None and for the empty dict
Truthy(solution) == ~solution.none /\ DOMAIN solution.entries # {}

----------------------------------------------------------------------------
(* The arguments of generate_timetable are drawn from these sets. *)

\* at most this many sessions with a candidate variable in a call
MaxSessions == 2

\* at most this many further sessions without any candidate variable
MaxIdleSessions == 1

Slot(day, hour) ==
    TimeSlot(time(hour, StartMinute), time(hour + 1, EndMinute), day)

\* a preferred slot given without end_time
SlotNoEnd(day, hour) == TimeSlot(time(hour, StartMinute), NoTime, day)

SubjectLevel(subject, grade, speciality) ==
    [subject |-> subject, grade |-> grade, speciality |-> speciality]

Professor(id, subject_levels, available_slots, preferred_slots, max_hours) ==
    [id |-> id, subject_levels |-> subject_levels,
     available_slots |-> available_slots,
     preferred_slots |-> preferred_slots, max_hours_per_day |-> max_hours]

Group(id, size) == [id |-> id, size |-> size, grade |-> 1, speciality |-> "cs"]

Room(id, type, capacity, features) ==
    [id |-> id, type |-> type, capacity |-> capacity, features |-> features]

Session(id, subject, room_type, professor, group, required_features, priority) ==
    [id |-> id, subject |-> subject, room_type |-> room_type,
     professor |-> professor, group |-> group,
     required_features |-> required_features, priority |-> priority]

\* teaches math and physics, Monday 08:30 and 09:30, prefers 09:30 (given
\* without end_time), two hours a day
Prof1 ==
    Professor(<<"p", "1">>,
              {SubjectLevel("math", 1, "cs"), SubjectLevel("phys", 1, "cs")},
              {Slot(0, 8), Slot(0, 9)}, {SlotNoEnd(0, 9)}, 2)

\* teaches math, Monday 08:30 and Tuesday 09:30, prefers Tuesday 09:30-10:45
Prof2 ==
    Professor(<<"p", "2">>, {SubjectLevel("math", 1, "cs")},
              {Slot(0, 8), Slot(1, 9)}, {Slot(1, 9)}, 6)

\* available 08:30-10:00 only, which is no catalog slot
Prof3 ==
    Professor(<<"p", "3">>, {SubjectLevel("math", 1, "cs")},
              {TimeSlot(time(8, 30), time(10, 0), 0)}, {}, 6)

\* teaches math and physics, Monday 08:30 only, six hours a day
Prof4 ==
    Professor(<<"p", "4">>,
              {SubjectLevel("math", 1, "cs"), SubjectLevel("phys", 1, "cs")},
              {Slot(0, 8)}, {}, 6)

Group1 == Group(<<"g", "1">>, 20)

Group2 == Group(<<"g", "2">>, 20)

Group3 == Group(<<"g", "3">>, 50)

RoomA == Room(<<"A">>, "td_room", 30, {})

RoomB == Room(<<"B">>, "td_room", 30, {"projector"})

RoomAB == Room(<<"A", "B">>, "td_room", 60, {"projector"})

RoomR_1 == Room(<<"R", "_", "1">>, "td_room", 30, {"projector"})

RoomX == Room(<<"0", "0", "_", "0", "9", "3", "0", "_", "A">>, "lab", 30, {})

RoomLists ==
    {<<RoomA>>, <<RoomA, RoomB>>, <<RoomA, RoomAB>>, <<RoomR_1>>,
     <<RoomA, RoomX>>}

ProfessorLists == {<<Prof1, Prof2, Prof3, Prof4>>, <<Prof2>>}

IdA == <<"a">>

IdB == <<"b">>

IdAB == <<"a", "b">>

IdAC == <<"a", "c">>

IdA_X == <<"a", "_", "x">>

IdB_X == <<"b", "_", "x">>

IdA_1_0930 == <<"a", "_", "1", "_", "0", "9", "3", "0">>

\* the session profiles: (subject, room type, professor, group, features,
\* priority)
Plain(id) == Session(id, "math", "td_room", Prof1, Group1, {}, 1)

Physics(id) == Session(id, "phys", "td_room", Prof1, Group2, {}, 1)

Other(id) == Session(id, "math", "td_room", Prof2, Group1, {}, 2)

Unfit(id) == Session(id, "chem", "td_room", Prof1, Group3, {"projector"}, 2)

Lab(id) == Session(id, "math", "lab", Prof2, Group2, {}, 1)

Idle(id) == Session(id, "math", "td_room", Prof3, Group1, {}, 1)

Large(id) == Session(id, "math", "td_room", Prof1, Group3, {"projector"}, 1)

Early(id) == Session(id, "math", "td_room", Prof4, Group1, {}, 1)

EarlyPhysics(id) == Session(id, "phys", "td_room", Prof4, Group2, {}, 1)

\* sessions whose professor has catalog slots
SessionPool ==
    {Plain(IdA), Lab(IdA), Early(IdA),
     Plain(IdB), Physics(IdB), Other(IdB), Unfit(IdB), Large(IdB),
     EarlyPhysics(IdB),
     Other(IdAB),
     Physics(IdAC),
     Plain(IdA_X), Unfit(IdA_X),
     Plain(IdB_X), Physics(IdB_X)}

\* sessions whose professor has no catalog slot
IdlePool == {Idle(IdA_1_0930), Idle(IdA)}

DistinctIds(ss) ==
    \A i, j \in 1..Len(ss) : i # j => ss[i].id # ss[j].id

SeqsUpTo(S, n) == UNION {[1..k -> S] : k \in 0..n}

\* the session lists of a call: sessions of SessionPool, then sessions of
\* IdlePool, ids distinct, at least one session
SessionLists ==
    {x \in {ss \o zz : ss \in SeqsUpTo(SessionPool, MaxSessions),
                       zz \in SeqsUpTo(IdlePool, MaxIdleSessions)} :
        DistinctIds(x)}
        \ {<<>>}

----------------------------------------------------------------------------
(* The generator as a state machine: one call of generate_timetable runs   *)
(* from "idle" to "returned", one step per stage of the method.            *)

EmptyModel == [constraints |-> {}, objective |-> <<>>]

Pending == [returned |-> FALSE, none |-> FALSE, entries |-> EmptyDict]

ReturnNone == [returned |-> TRUE, none |-> TRUE, entries |-> EmptyDict]

ReturnDict(d) == [returned |-> TRUE, none |-> FALSE, entries |-> d]

\* __init__
Init ==
    /\ pc = "idle"
    /\ sessions = <<>>
    /\ rooms = <<>>
    /\ professors = <<>>
    /\ time_slots = <<>>
    /\ assignments = <<>>
    /\ model = EmptyModel
    /\ status = "NOT_SOLVED"
    /\ value = {}
    /\ result = Pending

\* a model that keeps what an earlier call posted
StaleCpModel == model' = model

\* self.model = cp_model.CpModel()
NewCpModel == model' = EmptyModel

\* generate_timetable: entry, slot catalog, fresh model, variables
Call ==
    /\ pc = "idle"
    /\ \E ss \in SessionLists, rs \in RoomLists, ps \in ProfessorLists :
        /\ sessions' = ss
        /\ rooms' = rs
        /\ professors' = ps
        /\ time_slots' = create_time_slots
        /\ assignments' = create_assignments(ss, rs, create_time_slots)
    /\ NewCpModel
    /\ status' = "NOT_SOLVED"
    /\ value' = {}
    /\ result' = Pending
    /\ pc' = "session_constraints"

Post(cs) == model' = [model EXCEPT !.constraints = @ \cup cs]

Stage(from, to, cs) ==
    /\ pc = from
    /\ Post(cs)
    /\ pc' = to
    /\ UNCHANGED <<sessions, rooms, professors, time_slots, assignments,
                   status, value, result>>

AddSessionConstraints ==
    Stage("session_constraints", "room_constraints",
          add_session_constraints(assignments, sessions, time_slots))

AddRoomConstraints ==
    Stage("room_constraints", "professor_constraints",
          add_room_constraints(assignments, rooms, time_slots))

AddProfessorConstraints ==
    Stage("professor_constraints", "room_capacity_constraints",
          add_professor_constraints(assignments, sessions, professors,
                                    time_slots))

AddRoomCapacityConstraints ==
    Stage("room_capacity_constraints", "student_group_constraints",
          add_room_capacity_constraints(assignments, sessions, rooms,
                                        time_slots))

AddStudentGroupConstraints ==
    Stage("student_group_constraints", "professor_workload_constraints",
          add_student_group_constraints(assignments, sessions, time_slots))

AddProfessorWorkloadConstraints ==
    Stage("professor_workload_constraints", "objective",
          add_professor_workload_constraints(assignments, sessions,
                                             professors))

\* model.Add(objective == sum(objective_terms)); model.Maximize(objective)
BuildObjective ==
    /\ pc = "objective"
    /\ model' = [model EXCEPT !.objective = build_objective(assignments,
                                                            sessions)]
    /\ pc' = "solve"
    /\ UNCHANGED <<sessions, rooms, professors, time_slots, assignments,
                   status, value, result>>

Solved(st, val) ==
    /\ status' = st
    /\ value' = val
    /\ pc' = "solved"
    /\ UNCHANGED <<sessions, rooms, professors, time_slots, assignments,
                   model, result>>

\* solver.Solve(model): a proven optimum
SolveOptimal ==
    /\ pc = "solve"
    /\ \E val \in OptimalSet(assignments, model) : Solved("OPTIMAL", val)

\* solver.Solve(model): a solution not proven optimal
SolveFeasible ==
    /\ pc = "solve"
    /\ \E val \in FeasibleSet(assignments, model) : Solved("FEASIBLE", val)

\* solver.Solve(model): no valuation satisfies the model
SolveInfeasible ==
    /\ pc = "solve"
    /\ FeasibleSet(assignments, model) = {}
    /\ Solved("INFEASIBLE", {})

\* solver.Solve(model): the backend gives up or rejects the model
SolveNoAnswer ==
    /\ pc = "solve"
    /\ \E st \in {"UNKNOWN", "MODEL_INVALID"} : Solved(st, {})

\* the result of generate_timetable for a status and a valuation
generate_result(keys, st, val) ==
    IF st \in {"OPTIMAL", "FEASIBLE"} /\ Truthy(extract_solution(keys, val))
    THEN ReturnDict(extract_solution(keys, val).entries)
    ELSE ReturnNone

\* generate_timetable: status test, _extract_solution, return
Return ==
    /\ pc = "solved"
    /\ result' = generate_result(assignments, status, value)
    /\ pc' = "returned"
    /\ UNCHANGED <<sessions, rooms, professors, time_slots, assignments,
                   model, status, value>>

\* One call with the backend as the generator configures it: CpSolver() with
\* no time limit proves an optimum or proves infeasibility.
Next ==
    \/ Call
    \/ AddSessionConstraints
    \/ AddRoomConstraints
    \/ AddProfessorConstraints
    \/ AddRoomCapacityConstraints
    \/ AddStudentGroupConstraints
    \/ AddProfessorWorkloadConstraints
    \/ BuildObjective
    \/ SolveOptimal
    \/ SolveInfeasible
    \/ Return

Spec == Init /\ [][Next]_vars

\* One call with every status generate_timetable tests for.
NextAnyStatus ==
    \/ Next
    \/ SolveFeasible
    \/ SolveNoAnswer

SpecAnyStatus == Init /\ [][NextAnyStatus]_vars

\* the sessions of the calls made one after another on one generator
RepeatPool == {Plain(IdA), Plain(IdB), Other(IdAB), Unfit(IdB)}

RepeatSessionLists ==
    {x \in SeqsUpTo(RepeatPool, MaxSessions) : DistinctIds(x)} \ {<<>>}

RepeatRoomLists == {<<RoomA>>, <<RoomB>>}

\* generate_timetable called on a generator that is new or has returned
\* from an earlier call; self.solver keeps the response of the last Solve
CallRepeated ==
    /\ pc \in {"idle", "returned"}
    /\ \E ss \in RepeatSessionLists, rs \in RepeatRoomLists,
          ps \in ProfessorLists :
        /\ sessions' = ss
        /\ rooms' = rs
        /\ professors' = ps
        /\ time_slots' = create_time_slots
        /\ assignments' = create_assignments(ss, rs, create_time_slots)
    /\ NewCpModel
    /\ result' = Pending
    /\ pc' = "session_constraints"
    /\ UNCHANGED <<status, value>>

\* Any number of calls, one after another, on the same generator.
NextRepeated ==
    \/ CallRepeated
    \/ AddSessionConstraints
    \/ AddRoomConstraints
    \/ AddProfessorConstraints
    \/ AddRoomCapacityConstraints
    \/ AddStudentGroupConstraints
    \/ AddProfessorWorkloadConstraints
    \/ BuildObjective
    \/ SolveOptimal
    \/ SolveInfeasible
    \/ Return

SpecRepeated == Init /\ [][NextRepeated]_vars

----------------------------------------------------------------------------
(* Properties of a finished call *)

\* generate_timetable has returned an assignment (not None)
ReturnedAssignment == pc = "returned" /\ ~result.none

\* session i had at least one candidate variable
HasCandidate(i) ==
    \E c \in Candidates(sessions, rooms, time_slots) : c[1] = i

\* session i is a key of the returned assignment
Scheduled(i) == sessions[i].id \in DOMAIN result.entries

EntryOf(i) == result.entries[sessions[i].id]

SameTime(e, f) == e.day = f.day /\ e.start_time = f.start_time

\* C1: whenever generate_timetable returns an assignment, every session
\* that had at least one candidate variable is a key of the assignment (and
\* so has exactly one (day, start_time, room) triple), whatever the session
\* ids are.
C1_CandidateSessionsScheduled ==
    ReturnedAssignment =>
        \A i \in 1..Len(sessions) : HasCandidate(i) => Scheduled(i)

\* C2: every session of a returned assignment is placed at a catalog slot
\* that exactly matches one of its professor's available_slots, and its
\* professor can teach the session's (subject, grade, speciality).
C2_ProfessorAvailableAndEligible ==
    ReturnedAssignment =>
        \A i \in 1..Len(sessions) :
            Scheduled(i) =>
                /\ \E t \in 1..Len(time_slots) :
                       /\ SameTime(time_slots[t], EntryOf(i))
                       /\ prof_available(sessions[i], time_slots[t])
                /\ SessionProfCanTeach(sessions[i])

\* C3: every session of a returned assignment is placed in a room whose
\* capacity is at least the group size and whose features include the
\* session's required features.
C3_RoomFitsSession ==
    ReturnedAssignment =>
        \A i \in 1..Len(sessions) :
            Scheduled(i) =>
                \E r \in 1..Len(rooms) :
                    /\ rooms[r].id = EntryOf(i).room
                    /\ sessions[i].group.size <= rooms[r].capacity
                    /\ sessions[i].required_features \subseteq rooms[r].features

\* C4: no two distinct sessions with the same subject are assigned the same
\* (day, start_time) in a returned assignment.
C4_SubjectNonOverlap ==
    ReturnedAssignment =>
        \A i, j \in 1..Len(sessions) :
            (/\ i # j
             /\ Scheduled(i)
             /\ Scheduled(j)
             /\ sessions[i].subject = sessions[j].subject)
                => ~SameTime(EntryOf(i), EntryOf(j))

\* C5: no two distinct sessions are assigned the same (day, start_time,
\* room id) triple in a returned assignment.
C5_RoomExclusive ==
    ReturnedAssignment =>
        \A i, j \in 1..Len(sessions) :
            (i # j /\ Scheduled(i) /\ Scheduled(j))
                => EntryOf(i) # EntryOf(j)

\* C6: no two distinct sessions of the same group id are assigned the same
\* (day, start_time) in a returned assignment.
C6_GroupNonOverlap ==
    ReturnedAssignment =>
        \A i, j \in 1..Len(sessions) :
            (/\ i # j
             /\ Scheduled(i)
             /\ Scheduled(j)
             /\ sessions[i].group.id = sessions[j].group.id)
                => ~SameTime(EntryOf(i), EntryOf(j))

\* the sessions of the professor of session i scheduled on `day`
ProfessorDayLoad(i, day) ==
    Cardinality({j \in 1..Len(sessions) :
                    /\ Scheduled(j)
                    /\ sessions[j].professor.id = sessions[i].professor.id
                    /\ EntryOf(j).day = day})

\* C7: in a returned assignment the number of sessions of a professor on a
\* day is at most floor(max_hours_per_day * 2 / 3).
C7_ProfessorWorkload ==
    ReturnedAssignment =>
        \A i \in 1..Len(sessions) :
            Scheduled(i) =>
                ProfessorDayLoad(i, EntryOf(i).day)
                    <= (sessions[i].professor.max_hours_per_day * 2) \div 3

\* the objective coefficient of a variable: the sum of its terms
RECURSIVE Coefficient(_, _)
Coefficient(terms, var_name) ==
    IF Len(terms) = 0 THEN 0
    ELSE (IF Head(terms).var = var_name THEN Head(terms).coef ELSE 0)
         + Coefficient(Tail(terms), var_name)

\* the coefficient the specification gives the variable of (session, slot):
\* priority * 10, plus 5 when a preferred slot has the slot's day and
\* start_time
SpecifiedCoefficient(session, slot) ==
    session.priority * 10
        + (IF \E p \in session.professor.preferred_slots : SameTime(p, slot)
           THEN 5 ELSE 0)

\* the sum of the specified coefficients of the candidates C
RECURSIVE SpecifiedSum(_)
SpecifiedSum(C) ==
    IF C = {} THEN 0
    ELSE LET c == CHOOSE x \in C : TRUE
         IN  SpecifiedCoefficient(sessions[c[1]], time_slots[c[2]])
                 + SpecifiedSum(C \ {c})

\* C8: the objective coefficient of every decision variable (s, t, r) is
\* s.priority * 10, plus 5 exactly when the professor's preferred_slots has
\* a slot with the day and start_time of t, the end_time playing no role;
\* the maximized objective is the sum of these coefficients over the
\* variables valued 1.
C8_ObjectiveCoefficients ==
    /\ pc \in {"solve", "solved", "returned"} =>
           \A c \in Candidates(sessions, rooms, time_slots) :
               Coefficient(model.objective,
                           VarName(sessions[c[1]], time_slots[c[2]],
                                   rooms[c[3]]))
                   = SpecifiedCoefficient(sessions[c[1]], time_slots[c[2]])
    /\ (pc \in {"solved", "returned"} /\ status \in {"OPTIMAL", "FEASIBLE"}) =>
           ObjectiveValue(model.objective, value)
               = SpecifiedSum({c \in Candidates(sessions, rooms, time_slots) :
                                  VarName(sessions[c[1]], time_slots[c[2]],
                                          rooms[c[3]]) \in value})

\* C9: for every decision variable created for (session id, day, start
\* time, room id) and valued 1, _extract_solution inserts under exactly that
\* session id the entry {day, start_time, room} the key was built from, for
\* all session ids and room ids; no valued variable is skipped or attributed
\* to another session.
C9_KeyRoundTrip ==
    (pc = "solved" /\ status \in {"OPTIMAL", "FEASIBLE"}) =>
        LET solution == extract_solution(assignments, value)
        IN  \A c \in Candidates(sessions, rooms, time_slots) :
                LET session == sessions[c[1]]
                    slot == time_slots[c[2]]
                    room == rooms[c[3]]
                IN  VarName(session, slot, room) \in value =>
                        /\ ~solution.none
                        /\ session.id \in DOMAIN solution.entries
                        /\ solution.entries[session.id]
                               = [day |-> slot.day,
                                  start_time |-> slot.start_time,
                                  room |-> room.id]

\* Scenario C: a session with a candidate variable whose group is larger
\* than every room of its room_type
OversizedSession(i) ==
    /\ HasCandidate(i)
    /\ \A r \in 1..Len(rooms) :
           rooms[r].type = sessions[i].room_type
               => sessions[i].group.size > rooms[r].capacity

\* C10: generate_timetable returns None whenever the status is INFEASIBLE,
\* MODEL_INVALID or UNKNOWN, or the status is OPTIMAL/FEASIBLE and the
\* extracted map is empty; in particular it returns None when a session
\* with a candidate variable has a group larger than every room of its
\* room_type.
C10_FailureReturnsNone ==
    pc = "returned" =>
        /\ status \in {"INFEASIBLE", "MODEL_INVALID", "UNKNOWN"} => result.none
        /\ (/\ status \in {"OPTIMAL", "FEASIBLE"}
            /\ ~Truthy(extract_solution(assignments, value))) => result.none
        /\ (\E i \in 1..Len(sessions) : OversizedSession(i)) => result.none

----------------------------------------------------------------------------
(* Sessions without candidate variables *)

\* the constraints the six passes of generate_timetable post, for the keys
\* and arguments given
PostedConstraints(keys, ss, rs, ps, slots) ==
    add_session_constraints(keys, ss, slots)
        \cup add_room_constraints(keys, rs, slots)
        \cup add_professor_constraints(keys, ss, ps, slots)
        \cup add_room_capacity_constraints(keys, ss, rs, slots)
        \cup add_student_group_constraints(keys, ss, slots)
        \cup add_professor_workload_constraints(keys, ss, ps)

\* the model generate_timetable hands to the solver for the arguments given
ModelOf(ss, rs, ps) ==
    LET keys == create_assignments(ss, rs, create_time_slots)
    IN  [constraints |-> PostedConstraints(keys, ss, rs, ps, create_time_slots),
         objective |-> build_objective(keys, ss)]

\* the sessions of the call that have a candidate variable, in order
WithCandidates == Pick(sessions, {i \in 1..Len(sessions) : HasCandidate(i)})

\* some session of the call has no candidate variable
SomeSessionIdle == \E i \in 1..Len(sessions) : ~HasCandidate(i)

\* C11: a session with zero candidate variables receives no constraint: the
\* model handed to the solver admits the same valuations, and has the same
\* optimal valuations, as the model built from the call's sessions that
\* have candidates (so feasibility and the schedule of every other session
\* are as if the session had not been supplied), and the session is no key
\* of a returned assignment, whatever the session ids are.
C11_IdleSessionUnconstrained ==
    /\ (pc = "solve" /\ SomeSessionIdle) =>
        LET m0 == ModelOf(WithCandidates, rooms, professors)
        IN  /\ FeasibleSet(assignments, model) = FeasibleSet(assignments, m0)
            /\ OptimalSet(assignments, model) = OptimalSet(assignments, m0)
    /\ ReturnedAssignment =>
        \A i \in 1..Len(sessions) : ~HasCandidate(i) => ~Scheduled(i)

----------------------------------------------------------------------------
(* Calls one after another on one generator *)

\* the objective values of the optimal valuations of a model
OptimalValues(keys, m) ==
    LET V == {ObjectiveValue(m.objective, val) : val \in FeasibleSet(keys, m)}
    IN  {v \in V : \A w \in V : w <= v}

\* C12: in any sequence of generate_timetable calls on one generator, the
\* slot list, the variables and the constraints of a call are those derived
\* from the call's own arguments: the constraint passes start from a model
\* that holds nothing an earlier call posted, and the model solved is the
\* model a new generator builds from the same arguments, with its feasible
\* valuations and its optimal objective value.
C12_FreshModelPerCall ==
    LET fresh == ModelOf(sessions, rooms, professors)
        keys == create_assignments(sessions, rooms, create_time_slots)
    IN  /\ pc \notin {"idle"} =>
            /\ time_slots = create_time_slots
            /\ assignments = keys
        /\ pc = "session_constraints" => model = EmptyModel
        /\ pc = "solve" =>
            /\ model = fresh
            /\ FeasibleSet(assignments, model) = FeasibleSet(keys, fresh)
            /\ OptimalValues(assignments, model) = OptimalValues(keys, fresh)

\* a call that can be satisfied is about to be solved on a generator whose
\* earlier call failed
C12_SolveAfterFailedCall ==
    /\ pc = "solve"
    /\ status = "INFEASIBLE"
    /\ model.constraints # {}
    /\ FeasibleSet(assignments, model) # {}

----------------------------------------------------------------------------
(* The room capacity pass, variable by variable *)

\* the key of the candidate c = (session, slot, room)
CandidateKey(c) ==
    VarName(sessions[c[1]], time_slots[c[2]], rooms[c[3]])

\* the room capacity pass posts `var == 0` for the key
FixedByCapacityPass(var_name) ==
    SumEq(<<var_name>>, 0)
        \in add_room_capacity_constraints(assignments, sessions, rooms,
                                          time_slots)

\* C13: the room capacity pass fixes the variable of a candidate (session,
\* slot, room) to 0 if and only if the session's group is larger than the
\* capacity of that room or the session requires a feature that room lacks;
\* the capacity and features of another room never fix it, whatever the
\* room ids are.
C13_CapacityOfOwnRoom ==
    pc = "student_group_constraints" =>
        \A c \in Candidates(sessions, rooms, time_slots) :
            FixedByCapacityPass(CandidateKey(c))
                <=> ~RoomFits(sessions[c[1]], rooms[c[3]])

----------------------------------------------------------------------------
(* Clashes the returned assignment may hold *)

\* C14: in every returned assignment no professor has two distinct sessions
\* at the same (day, start_time), also when the two sessions differ in
\* subject, group and room.
C14_ProfessorNonOverlap ==
    ReturnedAssignment =>
        \A i, j \in 1..Len(sessions) :
            (/\ i # j
             /\ Scheduled(i)
             /\ Scheduled(j)
             /\ sessions[i].professor.id = sessions[j].professor.id)
                => ~SameTime(EntryOf(i), EntryOf(j))

\* datetime.time compared with <
TimeLess(a, b) ==
    a.hour < b.hour \/ (a.hour = b.hour /\ a.minute < b.minute)

\* TimeSlot.overlaps
overlaps(self, other) ==
    IF self.day # other.day THEN FALSE
    ELSE IF /\ self.week # other.week
            /\ self.week # WEEKLY
            /\ other.week # WEEKLY
         THEN FALSE
    ELSE /\ TimeLess(self.start_time, other.end_time)
         /\ TimeLess(other.start_time, self.end_time)

\* the catalog slot an entry of the assignment stands for
EntrySlot(e) ==
    TimeSlot(e.start_time, time((e.start_time.hour + 1) % 24, EndMinute),
             e.day)

\* C15: in every returned assignment no two distinct sessions placed in the
\* same room occupy catalog slots that overlap in the sense of
\* TimeSlot.overlaps, and not only slots with the same start time.
C15_RoomIntervalsDisjoint ==
    ReturnedAssignment =>
        \A i, j \in 1..Len(sessions) :
            (/\ i # j
             /\ Scheduled(i)
             /\ Scheduled(j)
             /\ EntryOf(i).room = EntryOf(j).room)
                => ~overlaps(EntrySlot(EntryOf(i)), EntrySlot(EntryOf(j)))

====
